---- MODULE Spec2Model ----
(***************************************************************************)
(* Model of src/main.py: the Japanese-to-English translation helper.       *)
(*                                                                         *)
(* The script is re-executed from top to bottom on every user interaction  *)
(* (one "run" per interaction).  What survives between runs is the widget  *)
(* state (the selected sentence, the typed answer), st.session_state       *)
(* (last_score, last_variant), the cached sheet handle and model, and the  *)
(* remote spreadsheet.  Each action below is one run of the script.        *)
(*                                                                         *)
(* Texts are sequences of one-character strings.  Scores are integers in   *)
(* units of 10^-5, so that the 4-decimal formatting of a score (units of   *)
(* 10^-4) is a real rounding.  An optional value is <<>> (None) or <<v>>.  *)
(***************************************************************************)
EXTENDS Integers, Sequences, FiniteSets

VARIABLES
    file,               \* data/translations.json: Missing, or its list of entries
    sheet,              \* the cached result of get_gsheet()
    model,              \* the cached sentence-embedding model
    selected_japanese,  \* value of the selectbox (optional)
    user_input,         \* value of the text input
    last_score,         \* st.session_state.last_score (optional)
    last_variant,       \* st.session_state.last_variant (optional)
    rows,               \* rows appended to the spreadsheet
    run                 \* what the latest run of the script did

vars == <<file, sheet, model, selected_japanese, user_input, last_score,
          last_variant, rows, run>>

----------------------------------------------------------------------------
(* Bounds of the model *)

MaxRows == 2        \* rows the spreadsheet accepts in the model
MaxAlts == 2        \* longest alternatives list of the generated entries

(* Program constants *)

ScoreScale == 100000   \* one unit of similarity, in units of 10^-5
THRESHOLD == 80000     \* 0.80

None == <<>>
Some(v) == <<v>>
Get(o) == o[1]

----------------------------------------------------------------------------
(* Texts *)

Sp == " "
Blank1 == <<Sp>>
TA == <<"a">>
TB == <<"b">>
TAsp == <<"a", Sp>>
TspB == <<Sp, "b">>
TAB == <<"a", Sp, "b">>

\* what the learner can type
Inputs == {<<>>, Blank1, TA, TspB}

\* reference texts of the generated entries
RefTexts == {TA, TB, TAsp, TAB}

J1 == <<"j", "1">>
J2 == <<"j", "2">>

Missing == "missing"

\* the data file of the main specification: an entry without alternatives,
\* one with an empty list, and a repeated key
FileDup ==
    << [japanese |-> J1, english |-> TB],
       [japanese |-> J2, english |-> TAB, alternatives |-> <<>>],
       [japanese |-> J1, english |-> TA, alternatives |-> <<TB>>] >>

DataFiles == {Missing, <<>>, FileDup}

CredModes == {"file", "secrets", "none"}

Models == {1}

----------------------------------------------------------------------------
(* str.strip() *)

IsSpace(c) == c = Sp

RECURSIVE LStrip(_)
LStrip(t) ==
    IF t = <<>> THEN <<>>
    ELSE IF IsSpace(Head(t)) THEN LStrip(Tail(t)) ELSE t

RECURSIVE RStrip(_)
RStrip(t) ==
    IF t = <<>> THEN <<>>
    ELSE IF IsSpace(t[Len(t)]) THEN RStrip(SubSeq(t, 1, Len(t) - 1)) ELSE t

Strip(t) == RStrip(LStrip(t))

\* the emptiness test without the strip()
IsBlankNoStrip(t) == t = <<>>

IsBlank(t) == Strip(t) = <<>>

----------------------------------------------------------------------------
(* get_gsheet, load_translations, japanese_to_entry *)

get_gsheet(creds) == IF creds = "none" THEN "None" ELSE "sheet1"

\* falls back to built-in sample entries when the file is missing
load_translations_fallback(f) == IF f = Missing THEN FileDup ELSE f

load_translations(f) == IF f = Missing THEN <<>> ELSE f

\* the keys of the dict comprehension
Keys(translations) == {translations[i].japanese : i \in DOMAIN translations}

\* the dict comprehension: a later entry with the same key replaces the value
japanese_to_entry(translations) ==
    [j \in Keys(translations) |->
        LET hits == {i \in DOMAIN translations : translations[i].japanese = j}
            last == CHOOSE i \in hits : \A k \in hits : k <= i
        IN  translations[last]]

\* list(japanese_to_entry.keys()): keys in order of first insertion
RECURSIVE KeyList(_)
KeyList(translations) ==
    IF translations = <<>> THEN <<>>
    ELSE LET n == Len(translations)
             before == KeyList(SubSeq(translations, 1, n - 1))
             j == translations[n].japanese
         IN  IF \E i \in DOMAIN before : before[i] = j
             THEN before ELSE Append(before, j)

Entries == japanese_to_entry(load_translations(file))
Options == KeyList(load_translations(file))

\* "if not japanese_to_entry": the run ends at st.stop()
Stopped == Keys(load_translations(file)) = {}

\* [entry["english"]] + entry.get("alternatives", [])
all_variants(entry) ==
    <<entry.english>> \o
    (IF "alternatives" \in DOMAIN entry THEN entry.alternatives ELSE <<>>)

----------------------------------------------------------------------------
(* The scorer *)

CharCode(c) == IF c = Sp THEN 6 ELSE IF c = "a" THEN 3 ELSE 2

RECURSIVE Weight(_)
Weight(t) ==
    IF t = <<>> THEN 0
    ELSE Weight(SubSeq(t, 1, Len(t) - 1)) + Len(t) * CharCode(t[Len(t)])

SimLevels == <<-2113, 41250, 79996, 80000, 80004, 95512>>

\* cosine similarity of the embeddings of two texts under model m: a fixed
\* symmetric function of the two texts, maximal for identical texts
Similarity(m, a, r) ==
    IF a = r THEN ScoreScale
    ELSE SimLevels[((Weight(a) + Weight(r) + m * Weight(a) * Weight(r))
                     % Len(SimLevels)) + 1]

\* util.pytorch_cos_sim(embeddings[0], embeddings[1:])
Scores(m, user_text, variants) ==
    [i \in DOMAIN variants |-> Similarity(m, user_text, variants[i])]

\* scores.max()
RECURSIVE MaxOf(_)
MaxOf(s) ==
    IF Len(s) = 1 THEN s[1]
    ELSE LET rest == MaxOf(Tail(s))
         IN  IF s[1] >= rest THEN s[1] ELSE rest

\* scores.argmax(): the index of the first maximal value (1-based here)
RECURSIVE ArgMax(_)
ArgMax(s) ==
    IF Len(s) = 1 THEN 1
    ELSE LET r == ArgMax(Tail(s))
         IN  IF s[1] >= Tail(s)[r] THEN 1 ELSE r + 1

\* returns the canonical reference with the best score
compute_first(m, user_text, variants) ==
    [score |-> MaxOf(Scores(m, user_text, variants)), best |-> variants[1]]

compute_score_and_best(m, user_text, variants) ==
    LET scores == Scores(m, user_text, variants)
        best_idx == ArgMax(scores)
        best_score == MaxOf(scores)
    IN  [score |-> best_score, best |-> variants[best_idx]]

----------------------------------------------------------------------------
(* Formatting and the row *)

\* datetime.now().strftime("%Y-%m-%d %H:%M:%S"): an opaque string
Strftime == "YYYY-mm-dd HH:MM:SS"

\* f"{best_score:.4f}": the score rounded to units of 10^-4
Format4(s) == IF s >= 0 THEN (s + 5) \div 10 ELSE -((5 - s) \div 10)

\* the comparison made strict
PassFailStrict(best_score) == IF best_score > THRESHOLD THEN "Pass" ELSE "Fail"

\* "Pass" if best_score >= THRESHOLD else "Fail"
PassFail(best_score) == IF best_score >= THRESHOLD THEN "Pass" ELSE "Fail"

\* the sentence column filled with the learner's answer
MakeRowSwapped(timestamp, japanese, answer, best_score) ==
    [timestamp |-> timestamp,
     japanese  |-> answer,
     answer    |-> answer,
     score     |-> Format4(best_score),
     label     |-> PassFail(best_score)]

MakeRow(timestamp, japanese, answer, best_score) ==
    [timestamp |-> timestamp,
     japanese  |-> japanese,
     answer    |-> answer,
     score     |-> Format4(best_score),
     label     |-> PassFail(best_score)]

\* an insert at the top of the sheet
append_row_front(sheetRows, row) == <<row>> \o sheetRows

\* sheet.append_row(row) that returns normally
append_row(sheetRows, row) == Append(sheetRows, row)

\* the check left out
sheet_never_None(sh) == FALSE

\* "if sheet is None"
sheet_is_None(sh) == sh = "None"

----------------------------------------------------------------------------
(* One run of the script *)

\* what a run reports before it looks at the buttons
LoadMsgs ==
    (IF file = Missing THEN {"Translation file not found."} ELSE {}) \cup
    (IF Stopped THEN {"No translation data found."} ELSE {})

Quiet ==
    [button |-> "none", stopped |-> Stopped, msgs |-> LoadMsgs, call |-> None,
     best_score |-> None, append |-> "none", attempts |-> 0]

CallOf(user_text, variants, res) ==
    Some([user_text |-> user_text, variants |-> variants,
          score |-> res.score, best |-> res.best])

\* a failed append tried once more, the second attempt succeeding
try_append_retry(ok, sheetRows, row, scored, best_score) ==
    [rows  |-> append_row(sheetRows, row),
     reset |-> TRUE,
     run   |-> [scored EXCEPT !.append = IF ok THEN "ok" ELSE "failed",
                   !.attempts = IF ok THEN 1 ELSE 2,
                   !.msgs = @ \cup {IF best_score >= THRESHOLD
                                    THEN "Submitted! (Pass)"
                                    ELSE "Submitted! (Below threshold)"}]]

\* the session cache reset in a finally clause
try_append_finally(ok, sheetRows, row, scored, best_score) ==
    IF ok
    THEN [rows  |-> append_row(sheetRows, row),
          reset |-> TRUE,
          run   |-> [scored EXCEPT !.append = "ok", !.attempts = 1,
                        !.msgs = @ \cup {IF best_score >= THRESHOLD
                                         THEN "Submitted! (Pass)"
                                         ELSE "Submitted! (Below threshold)"}]]
    ELSE [rows  |-> sheetRows,
          reset |-> TRUE,
          run   |-> [scored EXCEPT !.append = "failed", !.attempts = 1,
                        !.msgs = @ \cup {"Failed to save your submission"}]]

\* the try/except around the append: what the sheet holds afterwards, what
\* the run reports, and whether the session cache is reset
try_append(ok, sheetRows, row, scored, best_score) ==
    IF ok
    THEN [rows  |-> append_row(sheetRows, row),
          reset |-> TRUE,
          run   |-> [scored EXCEPT !.append = "ok", !.attempts = 1,
                        !.msgs = @ \cup {IF best_score >= THRESHOLD
                                         THEN "Submitted! (Pass)"
                                         ELSE "Submitted! (Below threshold)"}]]
    ELSE [rows  |-> sheetRows,
          reset |-> FALSE,
          run   |-> [scored EXCEPT !.append = "failed", !.attempts = 1,
                        !.msgs = @ \cup {"Failed to save your submission"}]]

Init ==
    /\ file \in DataFiles
    /\ sheet \in {get_gsheet(c) : c \in CredModes}
    /\ model \in Models
    /\ selected_japanese = IF Stopped THEN None ELSE Some(Options[1])
    /\ user_input = <<>>
    /\ last_score = None
    /\ last_variant = None
    /\ rows = <<>>
    /\ run = Quiet

\* a rerun with no widget changed (also the only run a stopped script allows)
Rerun ==
    /\ run' = Quiet
    /\ UNCHANGED <<file, sheet, model, selected_japanese, user_input,
                   last_score, last_variant, rows>>

\* the learner picks another sentence
Select(j) ==
    /\ ~Stopped
    /\ \E i \in DOMAIN Options : Options[i] = j
    /\ Some(j) # selected_japanese
    /\ selected_japanese' = Some(j)
    /\ run' = Quiet
    /\ UNCHANGED <<file, sheet, model, user_input, last_score, last_variant,
                   rows>>

\* the learner edits the answer
EditInput(t) ==
    /\ ~Stopped
    /\ t # user_input
    /\ user_input' = t
    /\ run' = Quiet
    /\ UNCHANGED <<file, sheet, model, selected_japanese, last_score,
                   last_variant, rows>>

\* the "Try Translation" button
PressTry ==
    /\ ~Stopped
    /\ IF IsBlank(user_input)
       THEN /\ run' = [Quiet EXCEPT !.button = "try",
                          !.msgs = @ \cup {"Please enter a translation before trying."}]
            /\ UNCHANGED <<last_score, last_variant>>
       ELSE LET entry == Entries[Get(selected_japanese)]
                variants == all_variants(entry)
                res == compute_score_and_best(model, user_input, variants)
            IN  /\ last_score' = Some(res.score)
                /\ last_variant' = Some(res.best)
                /\ run' = [Quiet EXCEPT !.button = "try",
                              !.call = CallOf(user_input, variants, res),
                              !.best_score = Some(res.score),
                              !.msgs = @ \cup {IF res.score >= THRESHOLD
                                               THEN "Good enough!"
                                               ELSE "Not quite there yet."}]
    /\ UNCHANGED <<file, sheet, model, selected_japanese, user_input, rows>>

\* the "Submit this translation" button; ok: whether the remote append succeeds
PressSubmit(ok) ==
    /\ ~Stopped
    /\ IF IsBlank(user_input)
       THEN /\ run' = [Quiet EXCEPT !.button = "submit",
                          !.msgs = @ \cup {"Please enter a translation before submitting."}]
            /\ UNCHANGED <<last_score, last_variant, rows>>
       ELSE LET entry == Entries[Get(selected_japanese)]
                variants == all_variants(entry)
                fresh == last_score = None
                timestamp == Strftime
                res == compute_score_and_best(model, user_input, variants)
                best_score == IF fresh THEN res.score ELSE Get(last_score)
                scored == [Quiet EXCEPT !.button = "submit",
                              !.call = IF fresh
                                       THEN CallOf(user_input, variants, res)
                                       ELSE None,
                              !.best_score = Some(best_score)]
                row == MakeRow(timestamp, Get(selected_japanese), user_input,
                               best_score)
            IN  IF sheet_is_None(sheet)
                THEN /\ run' = [scored EXCEPT !.msgs = @ \cup
                                   {"Google Sheet not available. Submission failed."}]
                     /\ UNCHANGED <<last_score, last_variant, rows>>
                ELSE LET out == try_append(ok, rows, row, scored, best_score)
                     IN  /\ ok => Len(rows) < MaxRows
                         /\ rows' = out.rows
                         /\ run' = out.run
                         /\ IF out.reset
                            THEN /\ last_score' = None
                                 /\ last_variant' = None
                            ELSE UNCHANGED <<last_score, last_variant>>
    /\ UNCHANGED <<file, sheet, model, selected_japanese, user_input>>

Next ==
    \/ Rerun
    \/ \E j \in {J1, J2} : Select(j)
    \/ \E t \in Inputs : EditInput(t)
    \/ PressTry
    \/ \E ok \in BOOLEAN : PressSubmit(ok)

Spec == Init /\ [][Next]_vars

----------------------------------------------------------------------------
(* The scorer on generated reference lists: the first entry of the data    *)
(* file has any reference and any list of at most MaxAlts alternatives (or *)
(* none), under each of the models; no sheet is configured.                *)

ScorerModels == {1, 2, 3}

RECURSIVE SeqsUpTo(_, _)
SeqsUpTo(S, n) ==
    IF n = 0 THEN {<<>>}
    ELSE LET shorter == SeqsUpTo(S, n - 1)
         IN  shorter \cup {Append(q, x) : q \in shorter, x \in S}

GeneratedFiles ==
    {<< [japanese |-> J1, english |-> e, alternatives |-> alts],
        [japanese |-> J2, english |-> TB] >> :
        e \in RefTexts, alts \in SeqsUpTo(RefTexts, MaxAlts)}
    \cup
    {<< [japanese |-> J1, english |-> e],
        [japanese |-> J2, english |-> TB] >> : e \in RefTexts}

InitScorer ==
    /\ file \in GeneratedFiles
    /\ sheet = get_gsheet("none")
    /\ model \in ScorerModels
    /\ selected_japanese = Some(Options[1])
    /\ user_input = <<>>
    /\ last_score = None
    /\ last_variant = None
    /\ rows = <<>>
    /\ run = Quiet

SpecScorer == InitScorer /\ [][Next]_vars

----------------------------------------------------------------------------
(* Claims *)

Pass4 == Format4(THRESHOLD)     \* 0.8000 as the sheet records it
LastRow == rows[Len(rows)]
Elems(s) == {s[i] : i \in DOMAIN s}

\* C1 (as stated): every appended row is labelled "Pass" if and only if the
\* score recorded in that row is >= 0.80, and "Fail" otherwise.
C1_LabelFollowsRecordedScore ==
    \A i \in DOMAIN rows :
        rows[i].label = (IF rows[i].score >= Pass4 THEN "Pass" ELSE "Fail")

\* C1 (amended): the row a successful Submit appends is labelled "Pass" if and
\* only if the unrounded best score of that run is >= THRESHOLD (a score of
\* exactly THRESHOLD is "Pass") and "Fail" otherwise, and its score field is
\* that score rounded to 4 decimals; so in every row the label agrees with the
\* recorded score except when the recorded score is exactly 0.8000.
C1_LabelFollowsBestScore ==
    /\ \A i \in DOMAIN rows :
          /\ rows[i].label \in {"Pass", "Fail"}
          /\ rows[i].score > Pass4 => rows[i].label = "Pass"
          /\ rows[i].score < Pass4 => rows[i].label = "Fail"
    /\ run.append = "ok" =>
          LET s == Get(run.best_score)
          IN  /\ LastRow.label = "Pass" <=> s >= THRESHOLD
              /\ LastRow.label = "Fail" <=> s < THRESHOLD
              /\ LastRow.score = Format4(s)

C1_Witness ==
    /\ run.append = "ok"
    /\ Get(run.best_score) = THRESHOLD
    /\ LastRow.label = "Pass"
    /\ \E i \in DOMAIN rows : rows[i].label = "Fail"

\* C2: for every answer and non-empty reference list, the scorer returns a
\* member of the list, the score is the similarity of the answer to that
\* member, and no reference of the list has a higher similarity.
C2_BestIsMaximal ==
    run.call # None =>
        LET c == Get(run.call)
        IN  /\ Len(c.variants) >= 1
            /\ c.best \in Elems(c.variants)
            /\ c.score = Similarity(model, c.user_text, c.best)
            /\ \A i \in DOMAIN c.variants :
                  c.score >= Similarity(model, c.user_text, c.variants[i])

C2_Witness ==
    /\ run.call # None
    /\ LET c == Get(run.call)
       IN  /\ Len(c.variants) = 3
           /\ c.best = c.variants[3]
           /\ c.best # c.variants[1]
           /\ Similarity(model, c.user_text, c.variants[1]) < c.score
           /\ Similarity(model, c.user_text, c.variants[2]) < c.score

\* C3: with an empty or whitespace-only input, Try and Submit call no scorer,
\* attempt no append, add no row and leave last_score and last_variant alone.
C3_BlankInputIsRejected ==
    [][(run'.button \in {"try", "submit"} /\ Strip(user_input') = <<>>) =>
          /\ run'.call = None
          /\ run'.best_score = None
          /\ run'.attempts = 0
          /\ rows' = rows
          /\ last_score' = last_score
          /\ last_variant' = last_variant]_vars

C3_Witness ==
    /\ run.button = "submit"
    /\ user_input = Blank1
    /\ "Please enter a translation before submitting." \in run.msgs
    /\ ~sheet_is_None(sheet)
    /\ last_score # None

\* C4: without credentials (the sheet is None) no row is ever appended and no
\* append is attempted; every Submit with a non-empty input reports that the
\* sheet is not available.
C4_NoSheetNoRow ==
    sheet = "None" =>
        /\ rows = <<>>
        /\ run.attempts = 0
        /\ run.append = "none"
        /\ (run.button = "submit" /\ Strip(user_input) # <<>>) =>
              "Google Sheet not available. Submission failed." \in run.msgs

C4_Witness ==
    /\ sheet = "None"
    /\ run.button = "submit"
    /\ Strip(user_input) # <<>>
    /\ run.call = None
    /\ last_score # None

\* C5: a failed append is reported for that Submit and not retried: one
\* attempt, no row added, the cache untouched, and the script not stopped;
\* no run makes more than one attempt.
C5_FailedAppendIsReported ==
    [][/\ run'.attempts <= 1
       /\ run'.append = "failed" =>
             /\ run'.button = "submit"
             /\ run'.attempts = 1
             /\ "Failed to save your submission" \in run'.msgs
             /\ rows' = rows
             /\ ~run'.stopped]_vars

C5_Witness ==
    /\ run.append = "failed"
    /\ Len(rows) = 1
    /\ "Failed to save your submission" \in run.msgs

\* C6: the sheet is append-only: a successful Submit adds exactly one row, at
\* the end, holding the selected sentence and the typed answer; every other
\* step leaves the sheet as it is.
C6_AppendOnly ==
    [][IF run'.append = "ok"
       THEN /\ run'.button = "submit"
            /\ Len(rows') = Len(rows) + 1
            /\ SubSeq(rows', 1, Len(rows)) = rows
            /\ rows'[Len(rows')].japanese = Get(selected_japanese)
            /\ rows'[Len(rows')].answer = user_input
            /\ rows'[Len(rows')].timestamp = Strftime
       ELSE rows' = rows]_vars

C6_Witness ==
    /\ Len(rows) = 2
    /\ rows[1].japanese # rows[2].japanese
    /\ rows[1].answer # rows[2].answer
    /\ run.append = "ok"
    /\ LastRow.answer = user_input

\* C7: with the data file missing or empty the script reports it and stops
\* before any interaction: nothing selected, no scorer call, no row.
C7_NoDataStops ==
    (file = Missing \/ file = <<>>) =>
        /\ run.stopped
        /\ "No translation data found." \in run.msgs
        /\ file = Missing => "Translation file not found." \in run.msgs
        /\ run.button = "none"
        /\ selected_japanese = None
        /\ run.call = None
        /\ last_score = None
        /\ rows = <<>>

C7_Witness ==
    /\ file = Missing
    /\ run.stopped
    /\ "Translation file not found." \in run.msgs
    /\ ~sheet_is_None(sheet)

\* C8: the sentence of every appended row is a key of japanese_to_entry.
C8_RowSentenceIsKey ==
    \A i \in DOMAIN rows : rows[i].japanese \in DOMAIN Entries

C8_Witness ==
    /\ Len(rows) = 2
    /\ rows[1].japanese = J2
    /\ rows[2].japanese = J1

\* C9 (as stated): the score of every appended row is the best similarity of
\* the row's answer against the reference variants of the row's sentence.
C9_RowScoreIsOfRowAnswer ==
    \A i \in DOMAIN rows :
        rows[i].score =
            Format4(compute_score_and_best(model, rows[i].answer,
                        all_variants(Entries[rows[i].japanese])).score)

\* C10: last_score and last_variant are both None or both set; a Try with a
\* non-empty input sets both to the scorer's result; a successful Submit
\* resets both, so that a Submit right after it scores again; a Submit that
\* fails leaves both as they were.
C10_CacheDiscipline ==
    /\ [](last_score = None <=> last_variant = None)
    /\ [][/\ (run'.button = "try" /\ Strip(user_input') # <<>>) =>
                /\ run'.call # None
                /\ last_score' = Some(Get(run'.call).score)
                /\ last_variant' = Some(Get(run'.call).best)
          /\ run'.append = "ok" =>
                /\ last_score' = None
                /\ last_variant' = None
          /\ (run'.button = "submit" /\ run'.append # "ok") =>
                /\ last_score' = last_score
                /\ last_variant' = last_variant
          /\ (run'.button = "submit" /\ Strip(user_input') # <<>>
                /\ last_score = None) => run'.call # None]_vars

C10_Witness ==
    /\ run.append = "failed"
    /\ last_score # None
    /\ last_variant # None
    /\ Len(rows) = 1


====
